---------------------------- MODULE Spec2Model ----------------------------
(***************************************************************************)
(* Exif extraction of vogel/jpeg.py as a state machine over a byte stream. *)
(*                                                                         *)
(* One behaviour is one construction Exif(image): the stages              *)
(* _verify_jpeg, _get_app1_offset / _find_app1_marker, _extract_app1_data, *)
(* EXIFData._verify_exif, TIFFStructure.__init__ and the recursive        *)
(* _decode_ifd, whose Python call stack is the variable stack.            *)
(*                                                                         *)
(* Python values are records [k, v]: an int is PyInt(n), a tuple of ints is  *)
(* PyTuple(<<..>>), a str (Python 2 byte string) is PyStr(<<byte, ..>>).        *)
(***************************************************************************)
EXTENDS Integers, Sequences, FiniteSets, TLC

----------------------------------------------------------------------------
(* Python values *)

PyInt(n) == [k |-> "int", v |-> <<n>>]

PyTuple(s) == [k |-> "tuple", v |-> s]

PyStr(s) == [k |-> "str", v |-> s]

None == [k |-> "None", v |-> <<>>]

\* An exception travelling up the Python stack, by class name.
Exc(kind) == [k |-> kind, v |-> <<>>]

ExcKinds == {"struct.error", "KeyError", "IndexError", "TypeError", "IOError",
             "RuntimeError"}

IsExc(x) == x.k \in ExcKinds

Min(a, b) == IF a < b THEN a ELSE b

\* Python slices s[:n] and s[n:]
Take(s, n) == SubSeq(s, 1, Min(n, Len(s)))

Drop(s, n) == SubSeq(s, n + 1, Len(s))

----------------------------------------------------------------------------
(* Class constants of Exif, APP1Segment, EXIFData *)

SOI == <<255, 216>>

APP0 == <<255, 224>>

APP1 == <<255, 225>>

CHUNK == 1024

APP1_HEADER_LEN == 4

ID_CODE == <<69, 120, 105, 102, 0>>   \* "Exif\x00"

PADDING == <<0>>

EXIF_HEADER_LEN == 6

----------------------------------------------------------------------------
(* Class constants of TIFFStructure *)

\* Type: (fmt, size, name, parse_fn); fmt is a sequence of struct codes.
IFD_TYPES ==
  1 :> [fmt |-> <<"B">>, size |-> 1, name |-> "BYTE", parse_fn |-> FALSE]
  @@ 2 :> [fmt |-> <<"s">>, size |-> 1, name |-> "ASCII", parse_fn |-> TRUE]
  @@ 3 :> [fmt |-> <<"H">>, size |-> 2, name |-> "SHORT", parse_fn |-> FALSE]
  @@ 4 :> [fmt |-> <<"I">>, size |-> 4, name |-> "LONG", parse_fn |-> FALSE]
  @@ 5 :> [fmt |-> <<"I", "I">>, size |-> 8, name |-> "RATIONAL", parse_fn |-> FALSE]
  @@ 7 :> [fmt |-> <<"x">>, size |-> 1, name |-> "UNDEFINED", parse_fn |-> FALSE]
  @@ 9 :> [fmt |-> <<"i">>, size |-> 4, name |-> "SLONG", parse_fn |-> FALSE]
  @@ 10 :> [fmt |-> <<"i", "i">>, size |-> 8, name |-> "SRATIONAL", parse_fn |-> FALSE]

RES == PyStr(<<82, 69, 83, 69, 82, 86, 69, 68>>)   \* "RESERVED"

OTHER_KEY == PyInt(-1)

NoMapping == [x \in {} |-> x]

\* Tag (DEC): (Name, Default, ValueMapping)
IFD_TAGS ==
  256 :> [name |-> "ImageWidth", default |-> None,
        mapping |-> NoMapping]
  @@ 257 :> [name |-> "ImageLength", default |-> None,
        mapping |-> NoMapping]
  @@ 258 :> [name |-> "BitsPerSample", default |-> PyTuple(<<8, 8, 8>>),
        mapping |-> NoMapping]
  @@ 259 :> [name |-> "Compression", default |-> None,
        mapping |-> (PyInt(1) :> PyStr(<<117, 110, 99, 111, 109, 112, 114, 101, 115, 115, 101, 100>>)   \* "uncompressed"
                 @@ PyInt(6) :> PyStr(<<74, 80, 69, 71>>)   \* "JPEG"
                 @@ OTHER_KEY :> RES)]
  @@ 262 :> [name |-> "PhotometricInterpretation", default |-> None,
        mapping |-> (PyInt(2) :> PyStr(<<82, 71, 66>>)   \* "RGB"
                 @@ PyInt(6) :> PyStr(<<89, 67, 98, 67, 114>>)   \* "YCbCr"
                 @@ OTHER_KEY :> RES)]
  @@ 274 :> [name |-> "Orientation", default |-> PyInt(1),
        mapping |-> NoMapping]
  @@ 277 :> [name |-> "SamplesPerPixel", default |-> PyInt(3),
        mapping |-> NoMapping]
  @@ 284 :> [name |-> "PlanarConfiguration", default |-> None,
        mapping |-> (PyInt(1) :> PyStr(<<99, 104, 117, 110, 107, 121>>)   \* "chunky"
                 @@ PyInt(2) :> PyStr(<<112, 108, 97, 110, 97, 114>>)   \* "planar"
                 @@ OTHER_KEY :> RES)]
  @@ 530 :> [name |-> "YCbCrSubSampling", default |-> None,
        mapping |-> (PyTuple(<<2, 1>>) :> PyStr(<<89, 67, 98, 67, 114, 52, 58, 50, 58, 50>>)   \* "YCbCr4:2:2"
                 @@ PyTuple(<<2, 2>>) :> PyStr(<<89, 67, 98, 67, 114, 52, 58, 50, 58, 48>>)   \* "YCbCr4:2:0"
                 @@ OTHER_KEY :> RES)]
  @@ 531 :> [name |-> "YCbCrPositioning", default |-> PyInt(1),
        mapping |-> (PyInt(1) :> PyStr(<<99, 101, 110, 116, 101, 114, 101, 100>>)   \* "centered"
                 @@ PyInt(2) :> PyStr(<<99, 111, 45, 115, 105, 116, 101, 100>>)   \* "co-sited"
                 @@ OTHER_KEY :> RES)]
  @@ 282 :> [name |-> "XResolution", default |-> PyTuple(<<72, 1>>),
        mapping |-> NoMapping]
  @@ 283 :> [name |-> "YResolution", default |-> PyTuple(<<72, 1>>),
        mapping |-> NoMapping]
  @@ 296 :> [name |-> "ResolutionUnit", default |-> PyInt(2),
        mapping |-> (PyInt(2) :> PyStr(<<105, 110, 99, 104, 101, 115>>)   \* "inches"
                 @@ PyInt(3) :> PyStr(<<99, 101, 110, 116, 105, 109, 101, 116, 101, 114, 115>>)   \* "centimeters"
                 @@ OTHER_KEY :> RES)]
  @@ 273 :> [name |-> "StripOffsets", default |-> None,
        mapping |-> NoMapping]
  @@ 278 :> [name |-> "RowsPerStrip", default |-> None,
        mapping |-> NoMapping]
  @@ 279 :> [name |-> "StripByteCounts", default |-> None,
        mapping |-> NoMapping]
  @@ 513 :> [name |-> "JPEGInterchangeFormat", default |-> None,
        mapping |-> NoMapping]
  @@ 514 :> [name |-> "JPEGInterchangeFormatLength", default |-> None,
        mapping |-> NoMapping]
  @@ 301 :> [name |-> "TransferFunction", default |-> None,
        mapping |-> NoMapping]
  @@ 318 :> [name |-> "WhitePoint", default |-> None,
        mapping |-> NoMapping]
  @@ 319 :> [name |-> "PrimaryChromaticities", default |-> None,
        mapping |-> NoMapping]
  @@ 529 :> [name |-> "YCbCrCoefficients", default |-> None,
        mapping |-> NoMapping]
  @@ 532 :> [name |-> "ReferenceBlackWhite", default |-> None,
        mapping |-> NoMapping]
  @@ 306 :> [name |-> "DateTime", default |-> None,
        mapping |-> NoMapping]
  @@ 270 :> [name |-> "ImageDescription", default |-> None,
        mapping |-> NoMapping]
  @@ 271 :> [name |-> "Make", default |-> None,
        mapping |-> NoMapping]
  @@ 272 :> [name |-> "Model", default |-> None,
        mapping |-> NoMapping]
  @@ 305 :> [name |-> "Software", default |-> None,
        mapping |-> NoMapping]
  @@ 315 :> [name |-> "Artist", default |-> None,
        mapping |-> NoMapping]
  @@ 33432 :> [name |-> "Copyright", default |-> None,
        mapping |-> NoMapping]
  @@ 36864 :> [name |-> "ExifVersion", default |-> PyStr(<<48, 50, 51, 48>>),   \* "0230"
        mapping |-> NoMapping]
  @@ 40960 :> [name |-> "FlashpixVersion", default |-> PyStr(<<48, 49, 48, 48>>),   \* "0100"
        mapping |-> (PyStr(<<48, 49, 48, 48>>) :> PyStr(<<70, 108, 97, 115, 104, 112, 105, 120, 32, 70, 111, 114, 109, 97, 116, 32, 86, 101, 114, 115, 105, 111, 110, 32, 49, 46, 48>>)   \* "Flashpix Format Version 1.0"
                 @@ OTHER_KEY :> RES)]
  @@ 40961 :> [name |-> "ColorSpace", default |-> PyInt(1),
        mapping |-> (PyInt(1) :> PyStr(<<115, 82, 71, 66>>)   \* "sRGB"
                 @@ PyInt(65535) :> PyStr(<<85, 110, 99, 97, 108, 105, 98, 114, 97, 116, 101, 100>>)   \* "Uncalibrated"
                 @@ OTHER_KEY :> RES)]
  @@ 42240 :> [name |-> "Gamma", default |-> None,
        mapping |-> NoMapping]
  @@ 37121 :> [name |-> "ComponentsConfiguration", default |-> PyStr(<<49, 50, 51, 48>>),   \* "1230"
        mapping |-> NoMapping]
  @@ 37122 :> [name |-> "CompressedBitsPerPixel", default |-> None,
        mapping |-> NoMapping]
  @@ 40962 :> [name |-> "PixelXDimension", default |-> None,
        mapping |-> NoMapping]
  @@ 40963 :> [name |-> "PixelYDimension", default |-> None,
        mapping |-> NoMapping]
  @@ 37500 :> [name |-> "MakerNote", default |-> None,
        mapping |-> NoMapping]
  @@ 37510 :> [name |-> "UserComment", default |-> None,
        mapping |-> NoMapping]
  @@ 40964 :> [name |-> "RelatedSoundFile", default |-> None,
        mapping |-> NoMapping]
  @@ 36867 :> [name |-> "DateTimeOriginal", default |-> None,
        mapping |-> NoMapping]
  @@ 36868 :> [name |-> "DateTimeDigitized", default |-> None,
        mapping |-> NoMapping]
  @@ 37520 :> [name |-> "SubSecTime", default |-> None,
        mapping |-> NoMapping]
  @@ 37521 :> [name |-> "SubSecTimeOriginal", default |-> None,
        mapping |-> NoMapping]
  @@ 37522 :> [name |-> "SubSecTimeDigitized", default |-> None,
        mapping |-> NoMapping]
  @@ 33434 :> [name |-> "ExposureTime", default |-> None,
        mapping |-> NoMapping]
  @@ 33437 :> [name |-> "FNumber", default |-> None,
        mapping |-> NoMapping]
  @@ 34850 :> [name |-> "ExposureProgram", default |-> PyInt(0),
        mapping |-> (PyInt(0) :> PyStr(<<78, 111, 116, 32, 100, 101, 102, 105, 110, 101, 100>>)   \* "Not defined"
                 @@ PyInt(1) :> PyStr(<<77, 97, 110, 117, 97, 108>>)   \* "Manual"
                 @@ PyInt(2) :> PyStr(<<78, 111, 114, 109, 97, 108, 32, 112, 114, 111, 103, 114, 97, 109>>)   \* "Normal program"
                 @@ PyInt(3) :> PyStr(<<65, 112, 101, 114, 116, 117, 114, 101, 32, 112, 114, 105, 111, 114, 105, 116, 121>>)   \* "Aperture priority"
                 @@ PyInt(4) :> PyStr(<<83, 104, 117, 116, 116, 101, 114, 32, 112, 114, 105, 111, 114, 105, 116, 121>>)   \* "Shutter priority"
                 @@ PyInt(5) :> PyStr(<<67, 114, 101, 97, 116, 105, 118, 101, 32, 112, 114, 111, 103, 114, 97, 109, 32, 40, 98, 105, 97, 115, 101, 100, 32, 116, 111, 119, 97, 114, 100, 32, 100, 101, 112, 116, 104, 32, 111, 102, 32, 102, 105, 101, 108, 100, 41>>)   \* "Creative program (biased toward depth of field)"
                 @@ PyInt(6) :> PyStr(<<65, 99, 116, 105, 111, 110, 32, 112, 114, 111, 103, 114, 97, 109, 32, 40, 98, 105, 97, 115, 101, 100, 32, 116, 111, 119, 97, 114, 100, 32, 102, 97, 115, 116, 32, 115, 104, 117, 116, 116, 101, 114, 32, 115, 112, 101, 101, 100, 41>>)   \* "Action program (biased toward fast shutter speed)"
                 @@ PyInt(7) :> PyStr(<<80, 111, 114, 116, 114, 97, 105, 116, 32, 109, 111, 100, 101, 32, 40, 102, 111, 114, 32, 99, 108, 111, 115, 101, 117, 112, 32, 112, 104, 111, 116, 111, 115, 32, 119, 105, 116, 104, 32, 116, 104, 101, 32, 98, 97, 99, 107, 103, 114, 111, 117, 110, 100, 32, 111, 117, 116, 32, 111, 102, 32, 102, 111, 99, 117, 115, 41>>)   \* "Portrait mode (for closeup photos with the background out of focus)"
                 @@ PyInt(8) :> PyStr(<<76, 97, 110, 100, 115, 99, 97, 112, 101, 32, 109, 111, 100, 101, 32, 40, 102, 111, 114, 32, 108, 97, 110, 100, 115, 99, 97, 112, 101, 32, 112, 104, 111, 116, 111, 115, 32, 119, 105, 116, 104, 32, 116, 104, 101, 32, 98, 97, 99, 107, 103, 114, 111, 117, 110, 100, 32, 105, 110, 32, 102, 111, 99, 117, 115, 41>>)   \* "Landscape mode (for landscape photos with the background in focus)"
                 @@ OTHER_KEY :> RES)]
  @@ 34852 :> [name |-> "SpectralSensitivity", default |-> None,
        mapping |-> NoMapping]
  @@ 34855 :> [name |-> "PhotographicSensitivity", default |-> None,
        mapping |-> NoMapping]
  @@ 34856 :> [name |-> "OECF", default |-> None,
        mapping |-> NoMapping]
  @@ 34864 :> [name |-> "SensitivityType", default |-> None,
        mapping |-> (PyInt(0) :> PyStr(<<85, 110, 107, 110, 111, 119, 110>>)   \* "Unknown"
                 @@ PyInt(1) :> PyStr(<<83, 79, 83>>)   \* "SOS"
                 @@ PyInt(2) :> PyStr(<<82, 69, 73>>)   \* "REI"
                 @@ PyInt(3) :> PyStr(<<73, 83, 79, 32, 83, 112, 101, 101, 100>>)   \* "ISO Speed"
                 @@ PyInt(4) :> PyStr(<<83, 79, 83, 44, 82, 69, 73>>)   \* "SOS,REI"
                 @@ PyInt(5) :> PyStr(<<83, 79, 83, 44, 73, 83, 79, 32, 83, 112, 101, 101, 100>>)   \* "SOS,ISO Speed"
                 @@ PyInt(6) :> PyStr(<<82, 69, 73, 44, 73, 83, 79, 32, 83, 112, 101, 101, 100>>)   \* "REI,ISO Speed"
                 @@ PyInt(7) :> PyStr(<<83, 79, 83, 44, 82, 69, 73, 44, 73, 83, 79, 32, 83, 112, 101, 101, 100>>)   \* "SOS,REI,ISO Speed"
                 @@ OTHER_KEY :> RES)]
  @@ 34865 :> [name |-> "StandardOutputSensitivity", default |-> None,
        mapping |-> NoMapping]
  @@ 34866 :> [name |-> "RecommendedExposureIndex", default |-> None,
        mapping |-> NoMapping]
  @@ 34867 :> [name |-> "ISOSpeed", default |-> None,
        mapping |-> NoMapping]
  @@ 34868 :> [name |-> "ISOSpeedLatitudeyyy", default |-> None,
        mapping |-> NoMapping]
  @@ 34869 :> [name |-> "ISOSpeedLatitudezzz", default |-> None,
        mapping |-> NoMapping]
  @@ 37377 :> [name |-> "ShutterSpeedValue", default |-> None,
        mapping |-> NoMapping]
  @@ 37378 :> [name |-> "ApertureValue", default |-> None,
        mapping |-> NoMapping]
  @@ 37379 :> [name |-> "BrightnessValue", default |-> None,
        mapping |-> NoMapping]
  @@ 37380 :> [name |-> "ExposureBiasValue", default |-> None,
        mapping |-> NoMapping]
  @@ 37381 :> [name |-> "MaxApertureValue", default |-> None,
        mapping |-> NoMapping]
  @@ 37382 :> [name |-> "SubjectDistance", default |-> None,
        mapping |-> NoMapping]
  @@ 37383 :> [name |-> "MeteringMode", default |-> PyInt(0),
        mapping |-> (PyInt(0) :> PyStr(<<85, 110, 107, 110, 111, 119, 110>>)   \* "Unknown"
                 @@ PyInt(1) :> PyStr(<<65, 118, 101, 114, 97, 103, 101>>)   \* "Average"
                 @@ PyInt(2) :> PyStr(<<67, 101, 110, 116, 101, 114, 87, 101, 105, 103, 104, 116, 101, 100, 65, 118, 101, 114, 97, 103, 101>>)   \* "CenterWeightedAverage"
                 @@ PyInt(3) :> PyStr(<<83, 112, 111, 116>>)   \* "Spot"
                 @@ PyInt(4) :> PyStr(<<77, 117, 108, 116, 105, 83, 112, 111, 116>>)   \* "MultiSpot"
                 @@ PyInt(5) :> PyStr(<<80, 97, 116, 116, 101, 114, 110>>)   \* "Pattern"
                 @@ PyInt(6) :> PyStr(<<80, 97, 114, 116, 105, 97, 108>>)   \* "Partial"
                 @@ PyInt(255) :> PyStr(<<79, 116, 104, 101, 114>>)   \* "Other"
                 @@ OTHER_KEY :> RES)]
  @@ 37384 :> [name |-> "LightSource", default |-> PyInt(0),
        mapping |-> (PyInt(0) :> PyStr(<<85, 110, 107, 110, 111, 119, 110>>)   \* "Unknown"
                 @@ PyInt(1) :> PyStr(<<68, 97, 121, 108, 105, 103, 104, 116>>)   \* "Daylight"
                 @@ PyInt(2) :> PyStr(<<70, 108, 117, 111, 114, 101, 115, 99, 101, 110, 116>>)   \* "Fluorescent"
                 @@ PyInt(3) :> PyStr(<<84, 117, 110, 103, 115, 116, 101, 110>>)   \* "Tungsten"
                 @@ PyInt(4) :> PyStr(<<70, 108, 97, 115, 104>>)   \* "Flash"
                 @@ PyInt(9) :> PyStr(<<70, 105, 110, 101, 32, 119, 101, 97, 116, 104, 101, 114>>)   \* "Fine weather"
                 @@ PyInt(10) :> PyStr(<<67, 108, 111, 117, 100, 121, 32, 119, 101, 97, 116, 104, 101, 114>>)   \* "Cloudy weather"
                 @@ PyInt(11) :> PyStr(<<83, 104, 97, 100, 101>>)   \* "Shade"
                 @@ PyInt(12) :> PyStr(<<68, 97, 121, 108, 105, 103, 104, 116, 32, 102, 108, 117, 111, 114, 101, 115, 99, 101, 110, 116, 32, 40, 68, 32, 53, 55, 48, 48, 32, 45, 32, 55, 49, 48, 48, 75, 41>>)   \* "Daylight fluorescent (D 5700 - 7100K)"
                 @@ PyInt(13) :> PyStr(<<68, 97, 121, 32, 119, 104, 105, 116, 101, 32, 102, 108, 117, 111, 114, 101, 115, 99, 101, 110, 116, 32, 40, 78, 32, 52, 54, 48, 48, 32, 45, 32, 53, 53, 48, 48, 75, 41>>)   \* "Day white fluorescent (N 4600 - 5500K)"
                 @@ PyInt(14) :> PyStr(<<67, 111, 111, 108, 32, 119, 104, 105, 116, 101, 32, 102, 108, 117, 111, 114, 101, 115, 99, 101, 110, 116, 32, 40, 87, 32, 51, 56, 48, 48, 32, 45, 32, 52, 53, 48, 48, 75, 41>>)   \* "Cool white fluorescent (W 3800 - 4500K)"
                 @@ PyInt(15) :> PyStr(<<87, 104, 105, 116, 101, 32, 102, 108, 117, 111, 114, 101, 115, 99, 101, 110, 116, 32, 40, 87, 87, 32, 51, 50, 53, 48, 32, 45, 32, 51, 56, 48, 48, 75, 41>>)   \* "White fluorescent (WW 3250 - 3800K)"
                 @@ PyInt(16) :> PyStr(<<87, 97, 114, 109, 32, 119, 104, 105, 116, 101, 32, 102, 108, 117, 111, 114, 101, 115, 99, 101, 110, 116, 32, 40, 76, 32, 50, 54, 48, 48, 32, 45, 32, 51, 50, 53, 48, 75, 41>>)   \* "Warm white fluorescent (L 2600 - 3250K)"
                 @@ PyInt(17) :> PyStr(<<83, 116, 97, 110, 100, 97, 114, 100, 32, 108, 105, 103, 104, 116, 32, 65>>)   \* "Standard light A"
                 @@ PyInt(18) :> PyStr(<<83, 116, 97, 110, 100, 97, 114, 100, 32, 108, 105, 103, 104, 116, 32, 66>>)   \* "Standard light B"
                 @@ PyInt(19) :> PyStr(<<83, 116, 97, 110, 100, 97, 114, 100, 32, 108, 105, 103, 104, 116, 32, 67>>)   \* "Standard light C"
                 @@ PyInt(20) :> PyStr(<<68, 53, 53>>)   \* "D55"
                 @@ PyInt(21) :> PyStr(<<68, 54, 53>>)   \* "D65"
                 @@ PyInt(22) :> PyStr(<<68, 55, 53>>)   \* "D75"
                 @@ PyInt(23) :> PyStr(<<68, 53, 48>>)   \* "D50"
                 @@ PyInt(24) :> PyStr(<<73, 83, 79, 32, 115, 116, 117, 100, 105, 111, 32, 116, 117, 110, 103, 115, 116, 101, 110>>)   \* "ISO studio tungsten"
                 @@ PyInt(255) :> PyStr(<<79, 116, 104, 101, 114>>)   \* "Other"
                 @@ OTHER_KEY :> RES)]
  @@ 37385 :> [name |-> "Flash", default |-> None,
        mapping |-> NoMapping]
  @@ 37386 :> [name |-> "FocalLength", default |-> None,
        mapping |-> NoMapping]
  @@ 37396 :> [name |-> "SubjectArea", default |-> None,
        mapping |-> NoMapping]
  @@ 41483 :> [name |-> "FlashEnergy", default |-> None,
        mapping |-> NoMapping]
  @@ 41484 :> [name |-> "SpatialFrequencyResponse", default |-> None,
        mapping |-> NoMapping]
  @@ 41486 :> [name |-> "FocalPlaneXResolution", default |-> None,
        mapping |-> NoMapping]
  @@ 41487 :> [name |-> "FocalPlaneYResolution", default |-> None,
        mapping |-> NoMapping]
  @@ 41488 :> [name |-> "FocalPlaneResolutionUnit", default |-> PyInt(2),
        mapping |-> NoMapping]
  @@ 41492 :> [name |-> "SubjectLocation", default |-> None,
        mapping |-> NoMapping]
  @@ 41493 :> [name |-> "ExposureIndex", default |-> None,
        mapping |-> NoMapping]
  @@ 41495 :> [name |-> "SensingMethod", default |-> None,
        mapping |-> (PyInt(1) :> PyStr(<<78, 111, 116, 32, 100, 101, 102, 105, 110, 101, 100>>)   \* "Not defined"
                 @@ PyInt(2) :> PyStr(<<79, 110, 101, 45, 99, 104, 105, 112, 32, 99, 111, 108, 111, 114, 32, 97, 114, 101, 97, 32, 115, 101, 110, 115, 111, 114>>)   \* "One-chip color area sensor"
                 @@ PyInt(3) :> PyStr(<<84, 119, 111, 45, 99, 104, 105, 112, 32, 99, 111, 108, 111, 114, 32, 97, 114, 101, 97, 32, 115, 101, 110, 115, 111, 114>>)   \* "Two-chip color area sensor"
                 @@ PyInt(4) :> PyStr(<<84, 104, 114, 101, 101, 45, 99, 104, 105, 112, 32, 99, 111, 108, 111, 114, 32, 97, 114, 101, 97, 32, 115, 101, 110, 115, 111, 114>>)   \* "Three-chip color area sensor"
                 @@ PyInt(5) :> PyStr(<<67, 111, 108, 111, 114, 32, 115, 101, 113, 117, 101, 110, 116, 105, 97, 108, 32, 97, 114, 101, 97, 32, 115, 101, 110, 115, 111, 114>>)   \* "Color sequential area sensor"
                 @@ PyInt(7) :> PyStr(<<84, 114, 105, 108, 105, 110, 101, 97, 114, 32, 115, 101, 110, 115, 111, 114>>)   \* "Trilinear sensor"
                 @@ PyInt(8) :> PyStr(<<67, 111, 108, 111, 114, 32, 115, 101, 113, 117, 101, 110, 116, 105, 97, 108, 32, 108, 105, 110, 101, 97, 114, 32, 115, 101, 110, 115, 111, 114>>)   \* "Color sequential linear sensor"
                 @@ OTHER_KEY :> RES)]
  @@ 41728 :> [name |-> "FileSource", default |-> PyInt(3),
        mapping |-> (PyInt(0) :> PyStr(<<79, 116, 104, 101, 114, 115>>)   \* "Others"
                 @@ PyInt(1) :> PyStr(<<83, 99, 97, 110, 110, 101, 114, 32, 111, 102, 32, 116, 114, 97, 110, 115, 112, 97, 114, 101, 110, 116, 32, 116, 121, 112, 101>>)   \* "Scanner of transparent type"
                 @@ PyInt(2) :> PyStr(<<83, 99, 97, 110, 110, 101, 114, 32, 111, 102, 32, 114, 101, 102, 108, 101, 120, 32, 116, 121, 112, 101>>)   \* "Scanner of reflex type"
                 @@ PyInt(3) :> PyStr(<<68, 83, 67>>)   \* "DSC"
                 @@ OTHER_KEY :> RES)]
  @@ 41729 :> [name |-> "SceneType", default |-> PyInt(1),
        mapping |-> (PyInt(1) :> PyStr(<<65, 32, 100, 105, 114, 101, 99, 116, 108, 121, 32, 112, 104, 111, 116, 111, 103, 114, 97, 112, 104, 101, 100, 32, 105, 109, 97, 103, 101>>)   \* "A directly photographed image"
                 @@ OTHER_KEY :> RES)]
  @@ 41730 :> [name |-> "CFAPattern", default |-> None,
        mapping |-> NoMapping]
  @@ 41985 :> [name |-> "CustomRendered", default |-> PyInt(0),
        mapping |-> (PyInt(0) :> PyStr(<<78, 111, 114, 109, 97, 108, 32, 80, 114, 111, 99, 101, 115, 115>>)   \* "Normal Process"
                 @@ PyInt(1) :> PyStr(<<67, 117, 115, 116, 111, 109, 32, 80, 114, 111, 99, 101, 115, 115>>)   \* "Custom Process"
                 @@ OTHER_KEY :> RES)]
  @@ 41986 :> [name |-> "ExposureMode", default |-> None,
        mapping |-> (PyInt(0) :> PyStr(<<65, 117, 116, 111>>)   \* "Auto"
                 @@ PyInt(1) :> PyStr(<<77, 97, 110, 117, 97, 108>>)   \* "Manual"
                 @@ PyInt(2) :> PyStr(<<65, 117, 116, 111, 32, 98, 114, 97, 99, 107, 101, 116>>)   \* "Auto bracket"
                 @@ OTHER_KEY :> RES)]
  @@ 41987 :> [name |-> "WhiteBalance", default |-> None,
        mapping |-> (PyInt(0) :> PyStr(<<65, 117, 116, 111>>)   \* "Auto"
                 @@ PyInt(1) :> PyStr(<<77, 97, 110, 117, 97, 108>>)   \* "Manual"
                 @@ OTHER_KEY :> RES)]
  @@ 41988 :> [name |-> "DigitalZoomRatio", default |-> None,
        mapping |-> NoMapping]
  @@ 41989 :> [name |-> "FocalLengthIn35mmFilm", default |-> None,
        mapping |-> NoMapping]
  @@ 41990 :> [name |-> "SceneCaptureType", default |-> PyInt(0),
        mapping |-> (PyInt(0) :> PyStr(<<83, 116, 97, 110, 100, 97, 114, 100>>)   \* "Standard"
                 @@ PyInt(1) :> PyStr(<<76, 97, 110, 100, 115, 99, 97, 112, 101>>)   \* "Landscape"
                 @@ PyInt(2) :> PyStr(<<80, 111, 114, 116, 114, 97, 105, 116>>)   \* "Portrait"
                 @@ PyInt(3) :> PyStr(<<78, 105, 103, 104, 116, 32, 115, 99, 101, 110, 101>>)   \* "Night scene"
                 @@ OTHER_KEY :> RES)]
  @@ 41991 :> [name |-> "GainControl", default |-> None,
        mapping |-> (PyInt(0) :> PyStr(<<78, 111, 110, 101>>)   \* "None"
                 @@ PyInt(1) :> PyStr(<<76, 111, 119, 32, 103, 97, 105, 110, 32, 117, 112>>)   \* "Low gain up"
                 @@ PyInt(2) :> PyStr(<<72, 105, 103, 104, 32, 103, 97, 105, 110, 32, 117, 112>>)   \* "High gain up"
                 @@ PyInt(3) :> PyStr(<<76, 111, 119, 32, 103, 97, 105, 110, 32, 100, 111, 119, 110>>)   \* "Low gain down"
                 @@ PyInt(4) :> PyStr(<<72, 105, 103, 104, 32, 103, 97, 105, 110, 32, 100, 111, 119, 110>>)   \* "High gain down"
                 @@ OTHER_KEY :> RES)]
  @@ 41992 :> [name |-> "Contrast", default |-> PyInt(0),
        mapping |-> (PyInt(0) :> PyStr(<<78, 111, 114, 109, 97, 108>>)   \* "Normal"
                 @@ PyInt(1) :> PyStr(<<83, 111, 102, 116>>)   \* "Soft"
                 @@ PyInt(2) :> PyStr(<<72, 97, 114, 100>>)   \* "Hard"
                 @@ OTHER_KEY :> RES)]
  @@ 41993 :> [name |-> "Saturation", default |-> PyInt(0),
        mapping |-> (PyInt(0) :> PyStr(<<78, 111, 114, 109, 97, 108>>)   \* "Normal"
                 @@ PyInt(1) :> PyStr(<<76, 111, 119, 32, 115, 97, 116, 117, 114, 97, 116, 105, 111, 110>>)   \* "Low saturation"
                 @@ PyInt(2) :> PyStr(<<72, 105, 103, 104, 32, 115, 97, 116, 117, 114, 97, 116, 105, 111, 110>>)   \* "High saturation"
                 @@ OTHER_KEY :> RES)]
  @@ 41994 :> [name |-> "Sharpness", default |-> PyInt(0),
        mapping |-> (PyInt(0) :> PyStr(<<78, 111, 114, 109, 97, 108>>)   \* "Normal"
                 @@ PyInt(1) :> PyStr(<<83, 111, 102, 116>>)   \* "Soft"
                 @@ PyInt(2) :> PyStr(<<72, 97, 114, 100>>)   \* "Hard"
                 @@ OTHER_KEY :> RES)]
  @@ 41995 :> [name |-> "DeviceSettingDescription", default |-> None,
        mapping |-> NoMapping]
  @@ 41996 :> [name |-> "SubjectDistanceRange", default |-> None,
        mapping |-> (PyInt(0) :> PyStr(<<85, 110, 107, 110, 111, 119, 110>>)   \* "Unknown"
                 @@ PyInt(1) :> PyStr(<<77, 97, 99, 114, 111>>)   \* "Macro"
                 @@ PyInt(2) :> PyStr(<<67, 108, 111, 115, 101, 32, 118, 105, 101, 119>>)   \* "Close view"
                 @@ PyInt(3) :> PyStr(<<68, 105, 115, 116, 97, 110, 116, 32, 118, 105, 101, 119>>)   \* "Distant view"
                 @@ OTHER_KEY :> RES)]
  @@ 42016 :> [name |-> "ImageUniqueID", default |-> None,
        mapping |-> NoMapping]
  @@ 42032 :> [name |-> "CameraOwnerName", default |-> None,
        mapping |-> NoMapping]
  @@ 42033 :> [name |-> "BodySerialNumber", default |-> None,
        mapping |-> NoMapping]
  @@ 42034 :> [name |-> "LensSpecification", default |-> None,
        mapping |-> NoMapping]
  @@ 42035 :> [name |-> "LensMake", default |-> None,
        mapping |-> NoMapping]
  @@ 42036 :> [name |-> "LensModel", default |-> None,
        mapping |-> NoMapping]
  @@ 42037 :> [name |-> "LensSerialNumber", default |-> None,
        mapping |-> NoMapping]

EXIF_IFD_TAGS == {34665, 34853}

BOM_LEN == 2

BOM_BIG == <<77, 77>>

BOM_LIT == <<73, 73>>

MAGIC_NUMBER == 42

MAGIC_LEN == 2

IFD_OFFSET_LEN == 4

IFD_COUNT_LEN == 2

IFD_ENTRY_LEN == 12

IFD_ENTRY_COUNT_LEN == 4

----------------------------------------------------------------------------
(* struct.unpack with a byte-order prefix: standard sizes, no alignment *)

CodeSize(c) == CASE c = "B" -> 1 [] c = "s" -> 1 [] c = "x" -> 1
                 [] c = "H" -> 2 [] c = "I" -> 4 [] c = "i" -> 4

RECURSIVE CalcSize(_)
CalcSize(fmt) == IF fmt = <<>> THEN 0 ELSE CodeSize(Head(fmt)) + CalcSize(Tail(fmt))

\* The unsigned integer held by bytes b in byte order bo (">" big, "<" little).
RECURSIVE Unsigned(_, _)
Unsigned(bo, b) ==
  IF b = <<>> THEN 0
  ELSE IF bo = ">" THEN Unsigned(bo, SubSeq(b, 1, Len(b) - 1)) * 256 + b[Len(b)]
       ELSE b[1] + 256 * Unsigned(bo, Tail(b))

\* The two's complement integer held by the 4 bytes b: the top byte carries the sign.
Signed32(bo, b) ==
  LET top == IF bo = ">" THEN b[1] ELSE b[4]
      low == IF bo = ">" THEN SubSeq(b, 2, 4) ELSE SubSeq(b, 1, 3)
  IN (IF top >= 128 THEN top - 256 ELSE top) * 16777216 + Unsigned(bo, low)

\* One struct code: "B", "H", "I" unsigned, "i" signed.  Unsigned values of the
\* model stay below 2^31, the range of the checker's integers.
UnpackOne(bo, c, b) == IF c = "i" THEN Signed32(bo, b) ELSE Unsigned(bo, b)

\* The tuple struct.unpack returns for a format of integer codes.
RECURSIVE UnpackTuple(_, _, _)
UnpackTuple(bo, fmt, b) ==
  IF fmt = <<>> THEN <<>>
  ELSE <<UnpackOne(bo, Head(fmt), SubSeq(b, 1, CodeSize(Head(fmt))))>>
       \o UnpackTuple(bo, Tail(fmt), SubSeq(b, CodeSize(Head(fmt)) + 1, Len(b)))

\* fmt * count
RECURSIVE Repeat(_, _)
Repeat(fmt, count) == IF count = 0 THEN <<>> ELSE fmt \o Repeat(fmt, count - 1)

\* _unpack(format, value) for a format of integer codes: struct.error when the
\* length differs from calcsize, val[0] of an empty tuple is an IndexError.
Unpack(bo, fmt, value) ==
  IF Len(value) # CalcSize(fmt) THEN Exc("struct.error")
  ELSE LET val == UnpackTuple(bo, fmt, value)
       IN IF Len(val) > 1 THEN PyTuple(val)
          ELSE IF Len(val) = 1 THEN PyInt(val[1])
          ELSE Exc("IndexError")

\* _unpack("%ds" % count, value): one str of count bytes.
UnpackString(count, value) ==
  IF Len(value) # count THEN Exc("struct.error") ELSE PyStr(value)

\* parse_fn of ASCII: x[:-1]
StripLast(x) == PyStr(SubSeq(x.v, 1, Len(x.v) - 1))

HexDigit(d) == CASE d = 0 -> "0" [] d = 1 -> "1" [] d = 2 -> "2" [] d = 3 -> "3"
                 [] d = 4 -> "4" [] d = 5 -> "5" [] d = 6 -> "6" [] d = 7 -> "7"
                 [] d = 8 -> "8" [] d = 9 -> "9" [] d = 10 -> "a" [] d = 11 -> "b"
                 [] d = 12 -> "c" [] d = 13 -> "d" [] d = 14 -> "e" [] d = 15 -> "f"

\* "%x" % n
RECURSIVE Hex(_)
Hex(n) == IF n < 16 THEN HexDigit(n) ELSE Hex(n \div 16) \o HexDigit(n % 16)

----------------------------------------------------------------------------
(* The byte stream: StringIO over a str, or the caller's seekable handle *)

Read(img, p, n) == SubSeq(img, p + 1, Min(p + n, Len(img)))

\* The cursor after read(n) at p.  StringIO sets pos to min(pos + n, len);
\* a file handle past the end stays where it is.
AfterRead(src, img, p, n) ==
  IF p + n <= Len(img) THEN p + n
  ELSE IF p <= Len(img) \/ src = "string" THEN Len(img)
  ELSE p

\* buf.find(pat): the least 0-based index at which pat occurs, or -1.
Find(b, pat) ==
  LET hits == {i \in 0..(Len(b) - Len(pat)) : SubSeq(b, i + 1, i + Len(pat)) = pat}
  IN IF hits = {} THEN -1 ELSE CHOOSE i \in hits : \A j \in hits : i <= j

----------------------------------------------------------------------------
(* TIFFStructure: pure parts *)

\* mapping.get(value, mapping.get(self.OTHER, value))
TranslateIfdValue(mapping, value) ==
  IF value \in DOMAIN mapping THEN mapping[value]
  ELSE IF OTHER_KEY \in DOMAIN mapping THEN mapping[OTHER_KEY]
  ELSE value

Put(entries, name, value) ==
  [n \in DOMAIN entries \cup {name} |-> IF n = name THEN value ELSE entries[n]]

NoEntries == [n \in {} |-> None]

\* A variant of _init_ifd_defaults that tests the default's truth value
\* ("if default:") instead of "default is not None".
IfdDefaultsTruthy ==
  LET got == {t \in DOMAIN IFD_TAGS :
                IFD_TAGS[t].default # None /\ IFD_TAGS[t].default # PyInt(0)}
  IN [n \in {IFD_TAGS[t].name : t \in got} |->
        LET t == CHOOSE u \in got : IFD_TAGS[u].name = n
        IN TranslateIfdValue(IFD_TAGS[t].mapping, IFD_TAGS[t].default)]

\* _init_ifd_defaults: ifd_entries after the loop over IFD_TAGS.values().
IfdDefaults ==
  LET got == {t \in DOMAIN IFD_TAGS : IFD_TAGS[t].default # None}
  IN [n \in {IFD_TAGS[t].name : t \in got} |->
        LET t == CHOOSE u \in got : IFD_TAGS[u].name = n
        IN IF IFD_TAGS[t].mapping # NoMapping
           THEN TranslateIfdValue(IFD_TAGS[t].mapping, IFD_TAGS[t].default)
           ELSE IFD_TAGS[t].default]

\* IFD_TAGS.get(tag, ("NA-0x%x" % tag, None, {}))
TagDescriptor(tag) ==
  IF tag \in DOMAIN IFD_TAGS THEN IFD_TAGS[tag]
  ELSE [name |-> "NA-0x" \o Hex(tag), default |-> None, mapping |-> NoMapping]

VARIABLES
  image,        \* the bytes of the input
  source,       \* "string" (wrapped in StringIO) or "handle" (the caller's file)
  pos,          \* the stream's cursor, shared by every stage
  pc,           \* the stage the construction is at
  offset,       \* _get_app1_offset's offset, then APP1Segment.offset
  buf,          \* _find_app1_marker's buf
  exif_offset,  \* EXIFData.offset
  tiff_offset,  \* TIFFStructure.offset
  bo,           \* TIFFStructure.bo
  ifd_entries,  \* TIFFStructure.ifd_entries
  stack,        \* the active _decode_ifd calls, innermost last
  arg,          \* the argument of the _decode_ifd call being entered
  outcome,      \* "" while running, "ok", or the exception that left Exif()
  log,          \* history: the entries decoded so far, in order
  visited       \* history: the arguments of the _decode_ifd calls entered

vars == <<image, source, pos, pc, offset, buf, exif_offset, tiff_offset, bo,
          ifd_entries, stack, arg, outcome, log, visited>>

\* An exception leaves the constructor with the cursor at p.
Raise(e, p) ==
  /\ pc' = "done"
  /\ outcome' = e
  /\ pos' = p
  /\ UNCHANGED <<image, source, offset, buf, exif_offset, tiff_offset, bo,
                 ifd_entries, stack, arg, log, visited>>

\* A variant of _decode_value that takes the offset from the start of the file
\* instead of from the TIFF header.
DecodeValueFromFileStart(p, typ, bytes, count) ==
  IF typ = 7 THEN [value |-> PyStr(bytes), pos |-> p, at |-> -1]
  ELSE IF typ \notin DOMAIN IFD_TYPES
  THEN [value |-> Exc("KeyError"), pos |-> p, at |-> -1]
  ELSE
    LET t == IFD_TYPES[typ]
        byte_len == t.size * count
        off == Unpack(bo, <<"I">>, bytes)
        far == byte_len > IFD_ENTRY_COUNT_LEN
        at == IF far /\ ~IsExc(off) THEN off.v[1] ELSE -1
        data == IF far THEN Read(image, at, byte_len) ELSE bytes
        raw == IF typ = 2 THEN UnpackString(count, Take(data, byte_len))
               ELSE Unpack(bo, Repeat(t.fmt, count), Take(data, byte_len))
    IN IF far /\ IsExc(off) THEN [value |-> off, pos |-> p, at |-> -1]
       ELSE [value |-> IF t.parse_fn /\ ~IsExc(raw) THEN StripLast(raw) ELSE raw,
             pos |-> p, at |-> at]

\* _decode_value(typ, bytes, count) called with the cursor at p: the value (or
\* the exception), the cursor afterwards, and where the value bytes were read
\* (at = -1: from the entry's own field).
DecodeValue(p, typ, bytes, count) ==
  IF typ = 7 THEN [value |-> PyStr(bytes), pos |-> p, at |-> -1]
  ELSE IF typ \notin DOMAIN IFD_TYPES
  THEN [value |-> Exc("KeyError"), pos |-> p, at |-> -1]
  ELSE
    LET t == IFD_TYPES[typ]
        byte_len == t.size * count
        off == Unpack(bo, <<"I">>, bytes)
        far == byte_len > IFD_ENTRY_COUNT_LEN
        at == IF far /\ ~IsExc(off) THEN tiff_offset + off.v[1] ELSE -1
        data == IF far THEN Read(image, at, byte_len) ELSE bytes
        raw == IF typ = 2 THEN UnpackString(count, Take(data, byte_len))
               ELSE Unpack(bo, Repeat(t.fmt, count), Take(data, byte_len))
    IN IF far /\ IsExc(off) THEN [value |-> off, pos |-> p, at |-> -1]
       ELSE [value |-> IF t.parse_fn /\ ~IsExc(raw) THEN StripLast(raw) ELSE raw,
             pos |-> p, at |-> at]

\* A variant of _handle_ifd_entry without the GPS test: both pointer tags recurse.
HandleIfdEntryNoSkip(tag, typ, count, value) ==
  IF tag \in EXIF_IFD_TAGS THEN "decode_ifd" ELSE "store"

\* _handle_ifd_entry: what is done with a decoded entry.
HandleIfdEntry(tag, typ, count, value) ==
  IF tag \in EXIF_IFD_TAGS
  THEN IF tag = 34853 THEN "return" ELSE "decode_ifd"
  ELSE "store"

\* A variant of _store_ifd_entry that keeps the first value of a name
\* (setdefault) instead of overwriting.
StoreIfdEntryKeepFirst(entries, tag, typ, count, value) ==
  LET d == TagDescriptor(tag)
  IN IF d.name \in DOMAIN entries THEN entries
     ELSE Put(entries, d.name, TranslateIfdValue(d.mapping, value))

\* _store_ifd_entry: ifd_entries afterwards.
StoreIfdEntry(entries, tag, typ, count, value) ==
  LET d == TagDescriptor(tag)
  IN Put(entries, d.name, TranslateIfdValue(d.mapping, value))

----------------------------------------------------------------------------
(* Exif: the JPEG stages *)

\* A variant of _verify_jpeg that reads at the cursor it was given.
VerifyJpegNoSeek ==
  /\ pc = "verify_jpeg"
  /\ IF Read(image, pos, 2) # SOI
     THEN Raise("ValueError: Invalid JPEG image", AfterRead(source, image, pos, 2))
     ELSE /\ pc' = "get_app1_offset"
          /\ pos' = AfterRead(source, image, pos, 2)
          /\ UNCHANGED <<image, source, offset, buf, exif_offset, tiff_offset, bo,
                         ifd_entries, stack, arg, outcome, log, visited>>

\* _verify_jpeg
VerifyJpeg ==
  /\ pc = "verify_jpeg"
  /\ IF Read(image, 0, 2) # SOI
     THEN Raise("ValueError: Invalid JPEG image", AfterRead(source, image, 0, 2))
     ELSE /\ pc' = "get_app1_offset"
          /\ pos' = AfterRead(source, image, 0, 2)
          /\ UNCHANGED <<image, source, offset, buf, exif_offset, tiff_offset, bo,
                         ifd_entries, stack, arg, outcome, log, visited>>

\* _get_app1_offset up to its return, or to the call of _find_app1_marker
\* (whose seek(offset) is taken here).
GetApp1Offset ==
  /\ pc = "get_app1_offset"
  /\ LET marker1 == Read(image, 2, 2)
         lenb == Read(image, 4, 2)
         off2 == 2 + 2 + Unsigned(">", lenb)
         jfif == marker1 = APP0
         off == IF jfif THEN off2 ELSE 2
         marker == IF jfif THEN Read(image, off2, 2) ELSE marker1
     IN IF jfif /\ Len(lenb) # 2
        THEN Raise("struct.error", AfterRead(source, image, 4, 2))
        ELSE /\ offset' = off
             /\ buf' = <<>>
             /\ IF marker # APP1
                THEN pc' = "find_app1_marker" /\ pos' = off
                ELSE pc' = "extract_app1_data"
                     /\ pos' = AfterRead(source, image, off, 2)
             /\ UNCHANGED <<image, source, exif_offset, tiff_offset, bo,
                            ifd_entries, stack, arg, outcome, log, visited>>

\* A variant of the loop that searches each chunk on its own.
FindApp1MarkerPerChunk ==
  /\ pc = "find_app1_marker"
  /\ LET chunk == Read(image, pos, CHUNK)
         loc == Find(chunk, APP1)
     IN /\ pos' = AfterRead(source, image, pos, CHUNK)
        /\ IF chunk = <<>>
           THEN pc' = "extract_app1_data" /\ offset' = -1 /\ buf' = buf
           ELSE /\ buf' = buf \o chunk
                /\ IF loc < 0
                   THEN pc' = pc /\ offset' = offset
                   ELSE pc' = "extract_app1_data" /\ offset' = loc + Len(buf) + offset
  /\ UNCHANGED <<image, source, exif_offset, tiff_offset, bo, ifd_entries, stack,
                 arg, outcome, log, visited>>

\* One turn of _find_app1_marker's loop; the turn that ends the loop returns
\* loc (-1), or loc + offset, into _extract_app1_data's offset.
FindApp1Marker ==
  /\ pc = "find_app1_marker"
  /\ LET chunk == Read(image, pos, CHUNK)
         loc == Find(buf \o chunk, APP1)
     IN /\ pos' = AfterRead(source, image, pos, CHUNK)
        /\ IF chunk = <<>>
           THEN pc' = "extract_app1_data" /\ offset' = -1 /\ buf' = buf
           ELSE /\ buf' = buf \o chunk
                /\ IF loc < 0
                   THEN pc' = pc /\ offset' = offset
                   ELSE pc' = "extract_app1_data" /\ offset' = loc + offset
  /\ UNCHANGED <<image, source, exif_offset, tiff_offset, bo, ifd_entries, stack,
                 arg, outcome, log, visited>>

\* _extract_app1_data after _get_app1_offset returned, APP1Segment.__init__,
\* _extract_exif_data and EXIFData.__init__ up to _verify_exif.
ExtractApp1Data ==
  /\ pc = "extract_app1_data"
  /\ IF offset < 0
     THEN Raise("ValueError: Invalid Exif image", pos)
     ELSE /\ exif_offset' = offset + APP1_HEADER_LEN
          /\ pc' = "verify_exif"
          /\ UNCHANGED <<image, source, pos, offset, buf, tiff_offset, bo,
                         ifd_entries, stack, arg, outcome, log, visited>>

\* EXIFData._verify_exif, then _extract_tiff_structure up to TIFFStructure().
VerifyExif ==
  /\ pc = "verify_exif"
  /\ LET header == Read(image, exif_offset, EXIF_HEADER_LEN)
         after == AfterRead(source, image, exif_offset, EXIF_HEADER_LEN)
     IN IF Len(header) # EXIF_HEADER_LEN
        THEN Raise("struct.error", after)
        ELSE IF header # ID_CODE \o PADDING
        THEN Raise("ValueError: Invalid Exif data", after)
        ELSE /\ tiff_offset' = exif_offset + EXIF_HEADER_LEN
             /\ pos' = after
             /\ pc' = "tiff_init"
             /\ UNCHANGED <<image, source, offset, buf, exif_offset, bo,
                            ifd_entries, stack, arg, outcome, log, visited>>

----------------------------------------------------------------------------
(* TIFFStructure: the stages *)

\* TIFFStructure.__init__ up to _verify_tiff.
InitIfdDefaults ==
  /\ pc = "tiff_init"
  /\ bo' = ">"
  /\ ifd_entries' = IfdDefaults
  /\ pc' = "verify_tiff"
  /\ UNCHANGED <<image, source, pos, offset, buf, exif_offset, tiff_offset,
                 stack, arg, outcome, log, visited>>

\* _verify_tiff
VerifyTiff ==
  /\ pc = "verify_tiff"
  /\ LET bom == Read(image, tiff_offset, BOM_LEN)
         p1 == AfterRead(source, image, tiff_offset, BOM_LEN)
         order == IF bom = BOM_BIG THEN ">" ELSE "<"
         magic == Unpack(order, <<"H">>, Read(image, p1, MAGIC_LEN))
         p2 == AfterRead(source, image, p1, MAGIC_LEN)
     IN IF bom # BOM_BIG /\ bom # BOM_LIT
        THEN Raise("ValueError: Invalid TIFF Frame", p1)
        ELSE IF IsExc(magic)
        THEN Raise(magic.k, p2)
        ELSE IF magic # PyInt(MAGIC_NUMBER)
        THEN Raise("ValueError: Invalid TIFF Frame", p2)
        ELSE /\ bo' = order
             /\ pos' = p2
             /\ pc' = "decode_tiff_structure"
             /\ UNCHANGED <<image, source, offset, buf, exif_offset, tiff_offset,
                            ifd_entries, stack, arg, outcome, log, visited>>

\* _decode_tiff_structure: _decode_tiff_header, then the call _decode_ifd(ifd_offset).
DecodeTiffStructure ==
  /\ pc = "decode_tiff_structure"
  /\ LET at == tiff_offset + BOM_LEN + MAGIC_LEN
         ifd0_offset == Unpack(bo, <<"I">>, Read(image, at, IFD_OFFSET_LEN))
         after == AfterRead(source, image, at, IFD_OFFSET_LEN)
     IN IF IsExc(ifd0_offset)
        THEN Raise(ifd0_offset.k, after)
        ELSE /\ arg' = ifd0_offset
             /\ pos' = after
             /\ pc' = "decode_ifd"
             /\ UNCHANGED <<image, source, offset, buf, exif_offset, tiff_offset, bo,
                            ifd_entries, stack, outcome, log, visited>>

\* The interpreter's limit on nested calls, counted in active _decode_ifd calls.
RecursionLimit == 3

\* _decode_ifd(arg) up to its loop: the cursor is saved, the count is read.
DecodeIfdEnter ==
  /\ pc = "decode_ifd"
  /\ IF Len(stack) >= RecursionLimit
     THEN Raise("RuntimeError", pos)
     ELSE IF arg.k # "int"
     THEN Raise("TypeError", pos)
     ELSE IF tiff_offset + arg.v[1] < 0 /\ source = "handle"
     THEN Raise("IOError", pos)
     ELSE
       LET at == IF tiff_offset + arg.v[1] < 0 THEN 0 ELSE tiff_offset + arg.v[1]
           count == Unpack(bo, <<"H">>, Read(image, at, IFD_COUNT_LEN))
           after == AfterRead(source, image, at, IFD_COUNT_LEN)
       IN IF IsExc(count)
          THEN Raise(count.k, after)
          ELSE /\ stack' = Append(stack, [offset |-> arg.v[1], pos |-> pos,
                                          count |-> count.v[1], i |-> 0])
               /\ visited' = Append(visited, arg.v[1])
               /\ pos' = after
               /\ pc' = "ifd_loop"
               /\ UNCHANGED <<image, source, offset, buf, exif_offset, tiff_offset,
                              bo, ifd_entries, arg, outcome, log>>

\* One turn of _decode_ifd's loop: read(IFD_ENTRY_LEN), _decode_ifd_entry,
\* _decode_value, _handle_ifd_entry and, for a stored entry, _store_ifd_entry.
DecodeIfdEntry ==
  /\ pc = "ifd_loop"
  /\ stack[Len(stack)].i < stack[Len(stack)].count
  /\ LET bytes == Read(image, pos, IFD_ENTRY_LEN)
         p1 == AfterRead(source, image, pos, IFD_ENTRY_LEN)
         hdr == Unpack(bo, <<"H", "H", "I">>, Take(bytes, 8))
         tag == hdr.v[1]
         typ == hdr.v[2]
         count == hdr.v[3]
         field == Drop(bytes, 8)
         dv == DecodeValue(p1, typ, field, count)
         how == HandleIfdEntry(tag, typ, count, dv.value)
     IN IF IsExc(hdr)
        THEN Raise(hdr.k, p1)
        ELSE IF IsExc(dv.value)
        THEN Raise(dv.value.k, dv.pos)
        ELSE /\ log' = Append(log, [ifd |-> stack[Len(stack)].offset,
                                    i |-> stack[Len(stack)].i, pos |-> pos,
                                    tag |-> tag, typ |-> typ, count |-> count,
                                    field |-> field, value |-> dv.value,
                                    at |-> dv.at, how |-> how])
             /\ stack' = [stack EXCEPT ![Len(stack)].i = @ + 1]
             /\ pos' = dv.pos
             /\ pc' = IF how = "decode_ifd" THEN "decode_ifd" ELSE "ifd_loop"
             /\ arg' = IF how = "decode_ifd" THEN dv.value ELSE arg
             /\ ifd_entries' = IF how = "store"
                               THEN StoreIfdEntry(ifd_entries, tag, typ, count, dv.value)
                               ELSE ifd_entries
             /\ UNCHANGED <<image, source, offset, buf, exif_offset, tiff_offset,
                            bo, outcome, visited>>

\* A variant of the end of _decode_ifd without seek(pos).
DecodeIfdExitNoRestore ==
  /\ pc = "ifd_loop"
  /\ stack[Len(stack)].i = stack[Len(stack)].count
  /\ LET next_offset == Unpack(bo, <<"I">>, Read(image, pos, IFD_OFFSET_LEN))
         after == AfterRead(source, image, pos, IFD_OFFSET_LEN)
         rest == SubSeq(stack, 1, Len(stack) - 1)
     IN IF IsExc(next_offset)
        THEN Raise(next_offset.k, after)
        ELSE /\ pos' = after
             /\ stack' = rest
             /\ pc' = IF rest = <<>> THEN "done" ELSE "ifd_loop"
             /\ outcome' = IF rest = <<>> THEN "ok" ELSE outcome
             /\ UNCHANGED <<image, source, offset, buf, exif_offset, tiff_offset,
                            bo, ifd_entries, arg, log, visited>>

\* The end of _decode_ifd: the next-IFD field is read and dropped, the cursor
\* restored; the outermost return ends Exif() with the mapping.
DecodeIfdExit ==
  /\ pc = "ifd_loop"
  /\ stack[Len(stack)].i = stack[Len(stack)].count
  /\ LET next_offset == Unpack(bo, <<"I">>, Read(image, pos, IFD_OFFSET_LEN))
         after == AfterRead(source, image, pos, IFD_OFFSET_LEN)
         rest == SubSeq(stack, 1, Len(stack) - 1)
     IN IF IsExc(next_offset)
        THEN Raise(next_offset.k, after)
        ELSE /\ pos' = stack[Len(stack)].pos
             /\ stack' = rest
             /\ pc' = IF rest = <<>> THEN "done" ELSE "ifd_loop"
             /\ outcome' = IF rest = <<>> THEN "ok" ELSE outcome
             /\ UNCHANGED <<image, source, offset, buf, exif_offset, tiff_offset,
                            bo, ifd_entries, arg, log, visited>>

----------------------------------------------------------------------------
(* The inputs: JPEG files laid out as the stages read them *)

MaxEntries == 2

MaxSubEntries == 2

\* Groups of w bytes, written most significant first, in byte order o.
ByteOrder(o, w, be) ==
  IF o = ">" THEN be
  ELSE [i \in 1..Len(be) |-> be[((i - 1) \div w) * w + (w - ((i - 1) % w))]]

Enc16(o, n) == ByteOrder(o, 2, <<n \div 256, n % 256>>)

Enc32(o, n) ==
  ByteOrder(o, 4, <<n \div 16777216, (n \div 65536) % 256, (n \div 256) % 256, n % 256>>)

Pad(b, n) == b \o [i \in 1..(n - Len(b)) |-> 0]

RECURSIVE Concat(_)
Concat(ss) == IF ss = <<>> THEN <<>> ELSE Head(ss) \o Concat(Tail(ss))

\* An entry to be written: its tag, type and count, and its 4-byte field,
\* either the value itself (groups of w bytes, most significant first) or the
\* offset of the block or directory named ref.
Item(tag, typ, count, w, be, ref) ==
  [tag |-> tag, typ |-> typ, count |-> count, w |-> w, be |-> be, ref |-> ref]

\* The values stored outside the entries, in file order after the TIFF header,
\* followed by a GPS directory of one entry (GPSLatitudeRef = "N").
Blocks(o) == <<
  [ref |-> "r1",  bytes |-> ByteOrder(o, 4, <<0, 0, 1, 44, 0, 0, 0, 1>>)],
  [ref |-> "r2",  bytes |-> ByteOrder(o, 4, <<0, 0, 1, 57, 0, 0, 3, 232,
                                              0, 0, 1, 73, 0, 0, 3, 232>>)],
  [ref |-> "sr",  bytes |-> ByteOrder(o, 4, <<255, 255, 255, 255, 0, 0, 0, 3>>)],
  [ref |-> "r1b", bytes |-> ByteOrder(o, 4, <<0, 0, 1, 44, 0, 0, 0, 1>>)],
  [ref |-> "str", bytes |-> <<67, 97, 110, 111, 110, 0, 0, 0>>],
  [ref |-> "l2",  bytes |-> ByteOrder(o, 4, <<0, 0, 2, 128, 0, 0, 1, 224>>)],
  [ref |-> "gps", bytes |-> Enc16(o, 1) \o Enc16(o, 1) \o Enc16(o, 2) \o Enc32(o, 2)
                            \o <<78, 0, 0, 0>> \o Enc32(o, 0) \o <<0, 0>>] >>

TiffHeaderLen == BOM_LEN + MAGIC_LEN + IFD_OFFSET_LEN

RECURSIVE BlockOffset(_, _)
BlockOffset(bs, ref) ==
  IF Head(bs).ref = ref THEN TiffHeaderLen
  ELSE Len(Head(bs).bytes) + BlockOffset(Tail(bs), ref)

Ifd0Offset == TiffHeaderLen + Len(Concat([i \in 1..Len(Blocks(">")) |-> Blocks(">")[i].bytes]))

DirLen(n) == IFD_COUNT_LEN + IFD_ENTRY_LEN * n + IFD_OFFSET_LEN

\* The TIFF-relative offset written for ref in a file whose IFD0 has n0 entries.
Where(ref, n0) ==
  CASE ref = "ifd0" -> Ifd0Offset
    [] ref = "sub" -> Ifd0Offset + DirLen(n0)
    [] ref = "far" -> Ifd0Offset + DirLen(n0) + DirLen(MaxSubEntries + 1) + 900
    [] OTHER -> BlockOffset(Blocks(">"), ref)

EntryBytes(o, it, n0) ==
  Enc16(o, it.tag) \o Enc16(o, it.typ) \o Enc32(o, it.count)
  \o (IF it.ref = "" THEN Pad(ByteOrder(o, it.w, it.be), 4)
      ELSE Enc32(o, Where(it.ref, n0)))

Dir(o, items, n0) ==
  Enc16(o, Len(items))
  \o Concat([i \in 1..Len(items) |-> EntryBytes(o, items[i], n0)])
  \o Enc32(o, 0)

Tiff(o, e0, e1) ==
  (IF o = ">" THEN BOM_BIG ELSE BOM_LIT) \o Enc16(o, MAGIC_NUMBER) \o Enc32(o, Ifd0Offset)
  \o Concat([i \in 1..Len(Blocks(o)) |-> Blocks(o)[i].bytes])
  \o Dir(o, e0, Len(e0)) \o Dir(o, e1, Len(e0))

App1(tiff) == APP1 \o Enc16(">", 2 + EXIF_HEADER_LEN + Len(tiff)) \o ID_CODE \o PADDING \o tiff

Jpeg(prefix, tiff) == SOI \o prefix \o App1(tiff)

\* The entries IFD0 is filled from.
Menu0 == <<
  Item(282, 5, 1, 4, <<>>, "r1"),          \* XResolution = 300/1, by offset
  Item(296, 3, 1, 2, <<0, 3>>, ""),        \* ResolutionUnit = 3
  Item(296, 3, 1, 2, <<0, 7>>, ""),        \* ResolutionUnit = 7
  Item(34665, 4, 1, 4, <<>>, "sub"),       \* Exif pointer to the sub-IFD
  Item(34665, 4, 1, 4, <<>>, "ifd0"),      \* Exif pointer to IFD0 itself
  Item(34853, 4, 1, 4, <<>>, "gps") >>     \* GPS pointer

\* The entries the Exif sub-IFD is filled from: it holds a run of this list.
SubCatalog == <<
  Item(36864, 7, 4, 1, <<48, 50, 50, 49>>, ""),    \* ExifVersion "0221"
  Item(40960, 7, 4, 1, <<48, 49, 48, 48>>, ""),    \* FlashpixVersion "0100"
  Item(40961, 3, 1, 2, <<255, 255>>, ""),          \* ColorSpace = 65535
  Item(40962, 4, 1, 4, <<0, 0, 2, 128>>, ""),      \* PixelXDimension = 640
  Item(40963, 3, 1, 2, <<1, 224>>, ""),            \* PixelYDimension = 480
  Item(283, 5, 1, 4, <<>>, "r1b"),                 \* YResolution = 300/1
  Item(318, 5, 2, 4, <<>>, "r2"),                  \* WhitePoint, 2 rationals
  Item(37380, 10, 1, 4, <<>>, "sr"),               \* ExposureBiasValue = -1/3
  Item(530, 3, 2, 2, <<0, 2, 0, 1>>, ""),          \* YCbCrSubSampling = (2, 1)
  Item(296, 3, 1, 2, <<0, 2>>, ""),                \* ResolutionUnit = 2
  Item(34853, 4, 1, 4, <<>>, "gps"),               \* GPS pointer
  Item(271, 2, 6, 1, <<>>, "str"),                 \* Make "Canon"
  Item(50341, 1, 1, 1, <<9>>, ""),                 \* a tag the catalog lacks
  Item(37500, 7, 8, 4, <<>>, "r2"),                \* MakerNote, UNDEFINED by offset
  Item(37379, 9, 1, 4, <<255, 255, 255, 251>>, ""),\* SLONG -5
  Item(37121, 1, 4, 1, <<1, 2, 3, 0>>, ""),        \* 4 BYTEs
  Item(273, 4, 2, 4, <<>>, "l2"),                  \* StripOffsets, 2 LONGs
  Item(305, 2, 3, 1, <<97, 98, 0>>, ""),           \* Software "ab", inline
  Item(256, 6, 1, 1, <<1>>, ""),                   \* type 6 is not in IFD_TYPES
  Item(305, 2, 9, 1, <<>>, "far"),                 \* value offset past the end
  Item(256, 3, 0, 2, <<>>, ""),                    \* count 0
  Item(34665, 5, 1, 4, <<>>, "r1"),                \* Exif pointer typed RATIONAL
  Item(34665, 4, 1, 4, <<>>, "ifd0") >>            \* Exif pointer back to IFD0

Seqs(menu, n) == UNION {[1..k -> {menu[i] : i \in 1..Len(menu)}] : k \in 0..n}

Runs(list, n) ==
  {SubSeq(list, a, Min(a + k - 1, Len(list))) : a \in 1..Len(list), k \in 0..n}

HasSubPointer(e0) == \E i \in 1..Len(e0) : e0[i].ref = "sub"

Case(img, src, p) == [image |-> img, source |-> src, pos |-> p]

\* Well-formed containers around every IFD0 and, where IFD0 points at it,
\* every sub-IFD, in both byte orders.
StructureCases ==
  {Case(Jpeg(<<>>, Tiff(o, e0, e1)), "string", 0) :
     o \in {">", "<"},
     e0 \in {e \in Seqs(Menu0, MaxEntries) : ~HasSubPointer(e)},
     e1 \in {<<>>}}
  \cup
  {Case(Jpeg(<<>>, Tiff(o, e0, e1)), "string", 0) :
     o \in {">", "<"},
     e0 \in {e \in Seqs(Menu0, MaxEntries) : HasSubPointer(e)},
     e1 \in Runs(SubCatalog, MaxSubEntries)}

\* IFD0: Exif pointer, XResolution; sub-IFD: PixelYDimension (SHORT), Make.
Sample(o) == Jpeg(<<>>, Tiff(o, <<Menu0[4], Menu0[1]>>, <<SubCatalog[5], SubCatalog[12]>>))

\* One file cut short at every length.
TruncatedCases ==
  {Case(SubSeq(Sample(o), 1, n), "string", 0) :
     o \in {">", "<"}, n \in 0..(Len(Sample(">")) - 1)}

Small == Tiff(">", <<Menu0[2]>>, <<>>)

Jfif == APP0 \o <<0, 4, 74, 70>>

\* n bytes that are part of no marker.
Filler(n) == [i \in 1..n |-> 0]

\* A segment that ends one byte before the end of the locator's first chunk,
\* so that the FF of what follows is the chunk's last byte.
Straddle == <<255, 219>> \o Filler(CHUNK - 3)

ContainerImages == {
  Jpeg(<<>>, Small),
  Jpeg(Jfif, Small),                                 \* APP0, then APP1
  Jpeg(<<255, 219, 0, 2>>, Small),                   \* another segment first
  Jpeg(Jfif \o <<255, 219, 0, 2>>, Small),           \* APP0, another, APP1
  Jpeg(APP0 \o <<0, 4, 255, 225>>, Small),           \* FF E1 inside APP0
  Jpeg(Straddle, Small),                             \* FF E1 across two chunks
  Jpeg(Jfif \o Straddle, Small),                     \* the same after APP0
  Jpeg(<<255, 219, 255, 225, 0, 0>>, Small),         \* FF E1 before the real APP1
  Jpeg(Jfif \o <<255, 219, 255, 225>>, Small),       \* the same after APP0
  SOI,
  SOI \o <<255>>,
  SOI \o <<255, 219, 0, 2, 1, 2, 255>>,              \* no APP1 at all
  SOI \o Jfif,
  SOI \o Jfif \o <<255, 219, 0, 2>>,
  SOI \o APP0 \o <<0, 4, 255, 225>>,                 \* FF E1 only inside APP0
  SOI \o APP0 \o <<0, 90, 74, 70>>,                  \* APP0 longer than the file
  SOI \o APP0,                                       \* APP0 without its length
  SOI \o APP0 \o <<0>>,
  <<>>,
  <<255>>,
  <<137, 80, 78>> \o Jpeg(<<>>, Small),              \* a JPEG after 3 other bytes
  <<255, 217>> \o App1(Small),
  SOI \o APP1,                                       \* APP1 and nothing else
  SOI \o APP1 \o <<0, 8>> \o ID_CODE,
  SOI \o APP1 \o <<0, 8>> \o ID_CODE \o <<1>> \o Small,
  SOI \o APP1 \o <<0, 8, 74, 70, 73, 70, 0, 0>> \o Small,
  SOI \o APP1 \o <<0, 8>> \o ID_CODE \o PADDING \o <<88, 88, 0, 42, 0, 0, 0, 8>>,
  SOI \o APP1 \o <<0, 8>> \o ID_CODE \o PADDING \o BOM_BIG \o <<0, 43, 0, 0, 0, 8>>,
  SOI \o APP1 \o <<0, 8>> \o ID_CODE \o PADDING \o BOM_LIT \o <<0, 42, 0, 0, 0, 8>> }

\* The same bytes as a str, and through a handle whose cursor is anywhere.
ContainerCases ==
  {Case(img, "string", 0) : img \in ContainerImages}
  \cup {Case(img, "handle", p) : img \in ContainerImages, p \in {0, 3, 400}}

Cases == StructureCases \cup TruncatedCases \cup ContainerCases

----------------------------------------------------------------------------

Init ==
  \E c \in Cases :
    /\ image = c.image
    /\ source = c.source
    /\ pos = c.pos
    /\ pc = "verify_jpeg"
    /\ offset = 0
    /\ buf = <<>>
    /\ exif_offset = 0
    /\ tiff_offset = 0
    /\ bo = ">"
    /\ ifd_entries = NoEntries
    /\ stack = <<>>
    /\ arg = None
    /\ outcome = ""
    /\ log = <<>>
    /\ visited = <<>>

Next ==
  \/ VerifyJpeg
  \/ GetApp1Offset
  \/ FindApp1Marker
  \/ ExtractApp1Data
  \/ VerifyExif
  \/ InitIfdDefaults
  \/ VerifyTiff
  \/ DecodeTiffStructure
  \/ DecodeIfdEnter
  \/ DecodeIfdEntry
  \/ DecodeIfdExit

Spec == Init /\ [][Next]_vars

----------------------------------------------------------------------------
(* Properties *)

Succeeded == pc = "done" /\ outcome = "ok"

NameOf(tag) == TagDescriptor(tag).name

\* The positions of log that stored a field under name.
StoredAs(name) ==
  {k \in DOMAIN log : log[k].tag \notin EXIF_IFD_TAGS /\ NameOf(log[k].tag) = name}

\* C1: after a successful decode, every catalog tag with a default whose field
\* name no decoded entry was stored under is a key of the mapping, and its value
\* is the default passed through the tag's value map (exact match, else the
\* OTHER entry, else the default itself).
C1_DefaultsPresent ==
  Succeeded =>
    \A t \in DOMAIN IFD_TAGS :
      (IFD_TAGS[t].default # None /\ StoredAs(IFD_TAGS[t].name) = {}) =>
        /\ IFD_TAGS[t].name \in DOMAIN ifd_entries
        /\ ifd_entries[IFD_TAGS[t].name] =
             (IF IFD_TAGS[t].default \in DOMAIN IFD_TAGS[t].mapping
              THEN IFD_TAGS[t].mapping[IFD_TAGS[t].default]
              ELSE IF OTHER_KEY \in DOMAIN IFD_TAGS[t].mapping
              THEN IFD_TAGS[t].mapping[OTHER_KEY]
              ELSE IFD_TAGS[t].default)

\* A successful decode that stored ResolutionUnit from the file and left
\* ColorSpace (default 1, shown as "sRGB") and ExposureProgram (default 0, shown
\* as "Not defined") to their defaults.
C1_Witness ==
  /\ Succeeded
  /\ StoredAs("ResolutionUnit") # {}
  /\ StoredAs("ColorSpace") = {}
  /\ StoredAs("ExposureProgram") = {}
  /\ ifd_entries["ColorSpace"] = PyStr(<<115, 82, 71, 66>>)
  /\ ifd_entries["ExposureProgram"] = IFD_TAGS[34850].mapping[PyInt(0)]

DefaultNames == {IFD_TAGS[t].name : t \in {u \in DOMAIN IFD_TAGS : IFD_TAGS[u].default # None}}

\* C2: an entry with tag 34853 never starts a directory decode and never stores
\* a field: every directory decoded is IFD0 or the target of an earlier entry
\* with tag 34665, every entry decoded lies in such a directory, and every key
\* of the mapping is a default's name or the name of a decoded entry whose tag
\* is not a pointer tag; no key is derived from tag 34853.
C2_GpsSkipped ==
  /\ \A j \in DOMAIN visited :
       j = 1 \/ \E k \in DOMAIN log : log[k].tag = 34665 /\ log[k].value = PyInt(visited[j])
  /\ Len(visited) <= 1 + Cardinality({k \in DOMAIN log : log[k].tag = 34665})
  /\ \A k \in DOMAIN log :
       \/ log[k].ifd = visited[1]
       \/ \E j \in 1..(k - 1) : log[j].tag = 34665 /\ log[j].value = PyInt(log[k].ifd)
  /\ \A n \in DOMAIN ifd_entries : n \in DefaultNames \/ StoredAs(n) # {}
  /\ NameOf(34853) \notin DOMAIN ifd_entries
  /\ "GPSIFD" \notin DOMAIN ifd_entries

\* A successful decode that met a GPS pointer in IFD0 and another in the Exif
\* sub-IFD.
C2_Witness ==
  /\ Succeeded
  /\ \E j, k \in DOMAIN log :
       /\ log[j].tag = 34853 /\ log[j].ifd = visited[1]
       /\ log[k].tag = 34853 /\ log[k].ifd # visited[1]

FormatErrors == {"ValueError: Invalid JPEG image", "ValueError: Invalid Exif image",
                 "ValueError: Invalid Exif data", "ValueError: Invalid TIFF Frame"}

\* C3: a decode that does not succeed ends in one of the module's format
\* errors (a ValueError), truncated reads and unknown type codes included.
C3_FailuresAreFormatErrors ==
  (pc = "done" /\ outcome # "ok") => outcome \in FormatErrors

\* C4: a directory that is being decoded is never entered again, so the
\* nesting of directory decodes is bounded by the file, and no decode ends by
\* exhausting the interpreter's stack.
C4_CycleNotFollowed ==
  /\ \A i, j \in DOMAIN stack : i # j => stack[i].offset # stack[j].offset
  /\ outcome # "RuntimeError"

Mandatory == {"XResolution", "YResolution", "ResolutionUnit", "YCbCrPositioning",
              "ExifVersion", "ComponentsConfiguration", "FlashpixVersion",
              "ColorSpace", "PixelXDimension", "PixelYDimension"}

\* C5: after a successful decode, every decoded entry whose tag is neither
\* 34665 nor 34853 has its field name (the catalog's, or "NA-0x<hex>") as a key,
\* the value under a name is the translated value of the last entry stored
\* under it in traversal order, and the ten mandatory names are all keys when
\* PixelXDimension and PixelYDimension entries were decoded.
C5_LastEntryWins ==
  Succeeded =>
    /\ \A k \in DOMAIN log :
         log[k].tag \notin {34665, 34853} =>
           LET name == IF log[k].tag \in DOMAIN IFD_TAGS
                       THEN IFD_TAGS[log[k].tag].name
                       ELSE "NA-0x" \o Hex(log[k].tag)
               last == CHOOSE m \in StoredAs(name) : \A n \in StoredAs(name) : n <= m
               map == IF log[last].tag \in DOMAIN IFD_TAGS
                      THEN IFD_TAGS[log[last].tag].mapping ELSE NoMapping
           IN /\ name \in DOMAIN ifd_entries
              /\ ifd_entries[name] =
                   (IF log[last].value \in DOMAIN map THEN map[log[last].value]
                    ELSE IF OTHER_KEY \in DOMAIN map THEN map[OTHER_KEY]
                    ELSE log[last].value)
    /\ (StoredAs("PixelXDimension") # {} /\ StoredAs("PixelYDimension") # {})
         => Mandatory \subseteq DOMAIN ifd_entries

\* A successful decode in which a name stored from the Exif sub-IFD was stored
\* again, with another value, by a later entry of IFD0.
C5_Witness ==
  /\ Succeeded
  /\ \E j, k \in DOMAIN log :
       /\ j < k
       /\ log[j].tag = log[k].tag
       /\ log[j].how = "store"
       /\ log[j].value # log[k].value
       /\ log[j].ifd # log[k].ifd
       /\ ifd_entries[NameOf(log[k].tag)] # IfdDefaults[NameOf(log[k].tag)]

\* The locator's search start: past a leading APP0 segment whose length field
\* is there, else right after SOI.
SearchStart ==
  IF Read(image, 2, 2) = APP0 /\ Len(Read(image, 4, 2)) = 2
  THEN 2 + 2 + Unsigned(">", Read(image, 4, 2))
  ELSE 2

NoApp1From(start) ==
  \A i \in start..(Len(image) - 2) : Read(image, i, 2) # APP1

\* C6: an input that begins with SOI and holds no FF E1 at or after the search
\* start fails with "Invalid Exif image", and no later stage runs.
C6_NoExifSegment ==
  (Take(image, 2) = SOI /\ NoApp1From(SearchStart)) =>
    /\ pc \in {"verify_jpeg", "get_app1_offset", "find_app1_marker",
               "extract_app1_data", "done"}
    /\ pc = "done" => outcome = "ValueError: Invalid Exif image"

\* C7: an input whose first two bytes are not FF D8 (or that is shorter) fails
\* with "Invalid JPEG image" in _verify_jpeg, before any later stage has read
\* or set anything, whatever follows and wherever the handle's cursor was.
C7_NotAJpeg ==
  Take(image, 2) # SOI =>
    /\ pc \in {"verify_jpeg", "done"}
    /\ pc = "done" => outcome = "ValueError: Invalid JPEG image"
    /\ offset = 0 /\ buf = <<>> /\ ifd_entries = NoEntries /\ visited = <<>>

\* A handle, positioned anywhere, over bytes that are not a JPEG but hold a
\* whole APP1/Exif segment, refused.
C7_Witness ==
  /\ pc = "done"
  /\ source = "handle"
  /\ Take(image, 2) # SOI
  /\ Find(image, APP1 \o Enc16(">", 2 + EXIF_HEADER_LEN + Len(Small)) \o ID_CODE) >= 0
  /\ outcome = "ValueError: Invalid JPEG image"

\* C8: every decoded entry i of the directory at relative offset o was read at
\* tiff_base + o + 2 + 12 * i; between the turns of a directory's loop the
\* cursor is where the next turn reads (or at the end of a stream cut short),
\* whatever value reads and nested decodes came before; and after the outermost
\* _decode_ifd returned the cursor is back after the TIFF header.
C8_CursorRestored ==
  /\ \A k \in DOMAIN log :
       log[k].pos = tiff_offset + log[k].ifd + IFD_COUNT_LEN + IFD_ENTRY_LEN * log[k].i
  /\ pc = "ifd_loop" =>
       LET top == stack[Len(stack)]
           next == tiff_offset + top.offset + IFD_COUNT_LEN + IFD_ENTRY_LEN * top.i
       IN pos = next \/ (pos = Len(image) /\ pos < next)
  /\ Succeeded => pos = tiff_offset + TiffHeaderLen

\* An entry of IFD0 read after a nested sub-IFD decode in which an
\* offset-indirected value was read between two entries.
C8_Witness ==
  /\ Succeeded
  /\ \E j, k, m \in DOMAIN log :
       /\ j < k /\ k + 1 < m
       /\ log[j].how = "decode_ifd"
       /\ log[k].at >= 0 /\ log[k].ifd # log[j].ifd
       /\ log[k + 1].ifd = log[k].ifd /\ log[k + 1].i = log[k].i + 1
       /\ log[m].ifd = log[j].ifd /\ log[m].i = log[j].i + 1

\* C9: an entry of type BYTE, SHORT, LONG, SLONG, RATIONAL or SRATIONAL with
\* count 1 decodes to one element (an integer, or a (numerator, denominator)
\* pair for the rational types) and with count n > 1 to a sequence of exactly n
\* elements.
C9_CountElements ==
  \A k \in DOMAIN log :
    log[k].typ \in {1, 3, 4, 9, 5, 10} =>
      IF log[k].count = 1
      THEN IF log[k].typ \in {5, 10}
           THEN log[k].value.k = "tuple" /\ Len(log[k].value.v) = 2
           ELSE log[k].value.k = "int"
      ELSE log[k].value.k = "tuple" /\ Len(log[k].value.v) = log[k].count

\* The value that count elements of type typ in bytes b stand for.
ValueOfBytes(typ, count, b) ==
  IF typ = 2 THEN PyStr(Take(b, count - 1))
  ELSE LET ints == UnpackTuple(bo, Repeat(IFD_TYPES[typ].fmt, count), b)
       IN IF Len(ints) = 1 THEN PyInt(ints[1]) ELSE PyTuple(ints)

\* The bytes entry e's value was decoded from.
ValueBytes(e) ==
  IF e.at >= 0 THEN Read(image, e.at, IFD_TYPES[e.typ].size * e.count)
  ELSE Take(e.field, IFD_TYPES[e.typ].size * e.count)

\* C10: for an entry of a type other than UNDEFINED with byte_len = size * count:
\* if byte_len > 4 the value is decoded from the byte_len bytes at tiff_base +
\* (the field as an unsigned 32-bit offset in the active byte order), where
\* tiff_base is the APP1 marker's offset + 10; otherwise from the first byte_len
\* bytes of the field, nothing else being read.  Equal value bytes give equal
\* values wherever they lie.  An UNDEFINED entry yields its field as it is.
C10_InlineOrOffset ==
  /\ \A k \in DOMAIN log :
       LET e == log[k] IN
       IF e.typ = 7 THEN e.value = PyStr(e.field) /\ e.at = -1
       ELSE LET byte_len == IFD_TYPES[e.typ].size * e.count IN
            /\ byte_len > 4 =>
                 /\ e.at = offset + 10 + Unsigned(bo, e.field)
                 /\ e.value = ValueOfBytes(e.typ, e.count, Read(image, e.at, byte_len))
            /\ byte_len <= 4 =>
                 /\ e.at = -1
                 /\ e.value = ValueOfBytes(e.typ, e.count, Take(e.field, byte_len))
  /\ \A j, k \in DOMAIN log :
       (/\ log[j].typ # 7 /\ log[j].typ = log[k].typ /\ log[j].count = log[k].count
        /\ ValueBytes(log[j]) = ValueBytes(log[k]))
         => log[j].value = log[k].value

\* Two RATIONAL entries whose equal value bytes lie at different offsets, and
\* an entry decoded from its own field.
C10_Witness ==
  \E j, k, m \in DOMAIN log :
    /\ log[j].typ = 5 /\ log[k].typ = 5
    /\ log[j].at >= 0 /\ log[k].at >= 0 /\ log[j].at # log[k].at
    /\ log[j].value = log[k].value
    /\ log[m].typ = 3 /\ log[m].at = -1

\* The file offset of the first FF E1 at or after start, -1 if there is none.
FirstApp1From(start) ==
  IF NoApp1From(start) THEN -1
  ELSE CHOOSE i \in start..(Len(image) - 2) :
         /\ Read(image, i, 2) = APP1
         /\ \A j \in start..(i - 1) : Read(image, j, 2) # APP1

\* The offset the three rules name: 2, or 4 + L past a leading APP0, when
\* FF E1 stands right there; else the first FF E1 from the search start on.
App1OffsetByRule ==
  IF Read(image, 2, 2) = APP1 THEN 2
  ELSE IF /\ Read(image, 2, 2) = APP0 /\ Len(Read(image, 4, 2)) = 2
          /\ Read(image, 4 + Unsigned(">", Read(image, 4, 2)), 2) = APP1
       THEN 4 + Unsigned(">", Read(image, 4, 2))
       ELSE FirstApp1From(SearchStart)

\* C11: for an input that starts with SOI and holds an FF E1 the rules reach,
\* the locator chooses 2 if bytes 2..3 are FF E1; else 4 + L if bytes 2..3 are
\* FF E0 with big-endian length L and FF E1 stands at 4 + L; else the file
\* offset of the first FF E1 at or after the search start (2, or 4 + L after
\* an APP0 skip), also when the pair lies across two 1024-byte chunks.  The
\* Exif header is checked at that offset + 4 and nowhere else: a header that
\* fails there ends the decoding with the offset kept and no IFD entry read.
C11_App1Offset ==
  (/\ Take(image, 2) = SOI /\ App1OffsetByRule >= 0
   /\ pc \notin {"verify_jpeg", "get_app1_offset", "find_app1_marker"}) =>
    /\ offset = App1OffsetByRule
    /\ pc # "extract_app1_data" => exif_offset = offset + APP1_HEADER_LEN
    /\ (/\ pc = "done"
        /\ Read(image, offset + APP1_HEADER_LEN, EXIF_HEADER_LEN) # ID_CODE \o PADDING) =>
          /\ outcome \in {"ValueError: Invalid Exif data", "struct.error"}
          /\ tiff_offset = 0
          /\ log = <<>>

\* A decoded file whose FF E1 has its FF as the last byte of the first chunk
\* read from the search start and its E1 as the first byte of the second.
C11_Witness ==
  /\ Succeeded
  /\ Len(buf) > CHUNK
  /\ offset = SearchStart + CHUNK - 1
  /\ offset = App1OffsetByRule
  /\ exif_offset = offset + APP1_HEADER_LEN
=============================================================================
